---------------------------- MODULE Spec2Model ----------------------------
(***************************************************************************)
(* State-machine model of the persistent-state layer of the food bot       *)
(* (src/src/utils.js, src/src/config.js): the food catalog file, the       *)
(* suggestion cache file and the two role files (admins, restricted).      *)
(*                                                                         *)
(* A JavaScript string is a sequence of one-character strings; comparisons *)
(* that depend on the character order use the UTF-16 code unit (CharCode). *)
(* File writes succeed in this model: the I/O-failure paths are not part   *)
(* of the behaviours described here.                                       *)
(***************************************************************************)
EXTENDS Integers, Sequences, FiniteSets, TLC

VARIABLES
    foodsFile,       \* data/foods.txt: [exists, content]
    foodCacheFile,   \* data/food_cache.json: [kind, food, timestamp]
    adminsFile,      \* data/admins.json: [kind, items]
    restrictedFile,  \* data/restricted_users.json: [kind, items]
    now,             \* the wall clock, in milliseconds
    last,            \* the most recent call: [op, arg, ret, log, at]
    prev,            \* the call before it
    pending          \* command handlers suspended at their first await

vars == <<foodsFile, foodCacheFile, adminsFile, restrictedFile, now, last, prev, pending>>

-----------------------------------------------------------------------------
(* Bounds of the model.                                                    *)

\* The sample grid of clock instants spans this many cache windows.
MaxWindows == 1
\* Math.random() is drawn from {0/RandDen, ..., (RandDen-1)/RandDen}.
RandDen == 3
\* The catalog file is not grown beyond this many characters.
MaxFileLen == 5
\* The indices tried by removeFoodByIndex are 0 .. MaxIndex.
MaxIndex == 4
\* The handlers suspended at one time are at most this many.
MaxPending == 2

-----------------------------------------------------------------------------
(* Strings.                                                                *)

NL == "\n"

\* UTF-16 code units of the characters the model uses.
CharCode ==
    (NL :> 10) @@ (" " :> 32) @@ ("@" :> 64) @@
    ("A" :> 65) @@ ("B" :> 66) @@ ("a" :> 97) @@ ("b" :> 98)

\* String.prototype.toLowerCase on one character.
lowerChar(c) ==
    CASE c = "A" -> "a"
      [] c = "B" -> "b"
      [] OTHER -> c

toLowerCase(s) == [i \in 1..Len(s) |-> lowerChar(s[i])]

\* The white space String.prototype.trim strips (of the model's characters).
WhiteSpace == {" ", NL}

RECURSIVE trimStart(_)
trimStart(s) ==
    IF Len(s) > 0 /\ Head(s) \in WhiteSpace THEN trimStart(Tail(s)) ELSE s

RECURSIVE trimEnd(_)
trimEnd(s) ==
    IF Len(s) > 0 /\ s[Len(s)] \in WhiteSpace
    THEN trimEnd(SubSeq(s, 1, Len(s) - 1))
    ELSE s

\* String.prototype.trim
trim(s) == trimEnd(trimStart(s))

\* content.split("\n")
RECURSIVE splitLines(_)
splitLines(s) ==
    IF \A i \in 1..Len(s) : s[i] # NL
    THEN <<s>>
    ELSE LET k == CHOOSE i \in 1..Len(s) :
                      s[i] = NL /\ \A j \in 1..(i - 1) : s[j] # NL
         IN  <<SubSeq(s, 1, k - 1)>> \o splitLines(SubSeq(s, k + 1, Len(s)))

\* list.join("\n")
RECURSIVE joinLines(_)
joinLines(list) ==
    IF Len(list) = 0 THEN <<>>
    ELSE IF Len(list) = 1 THEN list[1]
    ELSE list[1] \o <<NL>> \o joinLines(Tail(list))

\* Array.prototype.includes: exact (case-sensitive) equality.
includes(list, x) == \E i \in 1..Len(list) : list[i] = x

\* The order of the default Array.prototype.sort comparator: by code units.
StrLess(a, b) ==
    \E k \in 1..(Len(a) + 1) :
        /\ \A j \in 1..(k - 1) : j <= Len(b) /\ a[j] = b[j]
        /\ k <= Len(b)
        /\ (k > Len(a) \/ CharCode[a[k]] < CharCode[b[k]])

RECURSIVE insertSorted(_, _)
insertSorted(x, sorted) ==
    IF Len(sorted) = 0 THEN <<x>>
    ELSE IF StrLess(x, Head(sorted)) THEN <<x>> \o sorted
    ELSE <<Head(sorted)>> \o insertSorted(x, Tail(sorted))

\* Array.prototype.sort() with the default comparator (stable).
RECURSIVE sort(_)
sort(list) ==
    IF Len(list) = 0 THEN <<>>
    ELSE insertSorted(list[Len(list)], sort(SubSeq(list, 1, Len(list) - 1)))

\* Faulty variant: every item equal to the one at position i goes.
removeAt_everyEqual(list, i) == SelectSeq(list, LAMBDA x : x # list[i])

\* Array.prototype.splice(zeroIndex, 1), at the 1-based position i.
removeAt(list, i) == SubSeq(list, 1, i - 1) \o SubSeq(list, i + 1, Len(list))

-----------------------------------------------------------------------------
(* Configuration.                                                          *)

\* Cache duration in milliseconds (12 hours).
CACHE_DURATION_MS == 12 * 60 * 60 * 1000

-----------------------------------------------------------------------------
(* The call record kept for the claims: what was called, with what, what   *)
(* it returned, what it logged and when.                                   *)

NoValue == "none"
Call(op, arg, ret, log) == [op |-> op, arg |-> arg, ret |-> ret, log |-> log, at |-> now]
\* The outcome of a call that ended in an uncaught exception.
Raised(error) == [raised |-> error]
NoCall == [op |-> "none", arg |-> NoValue, ret |-> NoValue, log |-> "", at |-> 0]

\* No handler is suspended. The queue holds the handlers whose first await
\* was reached, in that order; draining tells that their continuations are
\* being run, which happens before the next update is dispatched.
NoPending == [queue |-> <<>>, draining |-> FALSE]

-----------------------------------------------------------------------------
(* The suggestion cache.                                                   *)

NoCacheFile == [kind |-> "absent", food |-> <<>>, timestamp |-> 0]

\* Cache files the program does not write itself: the JSON text null, another
\* parsable text without a food (such as {} or 5), and an unparsable text.
NullCacheFile == [kind |-> "null", food |-> <<>>, timestamp |-> 0]
OtherCacheFile == [kind |-> "other", food |-> <<>>, timestamp |-> 0]
UnparsableCacheFile == [kind |-> "unparsable", food |-> <<>>, timestamp |-> 0]

\* What loadFoodCache returns: isNull tells the value null (JSON.parse of
\* the text null) from an object; hasFood and hasTimestamp are the truthiness
\* of cache.food and cache.timestamp. A timestamp is written by
\* toISOString and read back by new Date(...).getTime(): both are exact to
\* the millisecond, the unit of the clock here.
loadFoodCache ==
    IF foodCacheFile.kind = "entry"
    THEN [isNull |-> FALSE,
          hasFood |-> Len(foodCacheFile.food) > 0, food |-> foodCacheFile.food,
          hasTimestamp |-> TRUE, timestamp |-> foodCacheFile.timestamp]
    ELSE [isNull |-> foodCacheFile.kind = "null",
          hasFood |-> FALSE, food |-> <<>>, hasTimestamp |-> FALSE, timestamp |-> 0]

\* Faulty variant: an existing entry keeps its old timestamp.
saveFoodCache_keepTimestamp(food) ==
    [kind |-> "entry", food |-> food,
     timestamp |-> IF foodCacheFile.kind = "entry" THEN foodCacheFile.timestamp ELSE now]

\* The cache file saveFoodCache writes.
saveFoodCache(food) == [kind |-> "entry", food |-> food, timestamp |-> now]

\* Faulty variants: the file is left in place; the file is emptied.
clearedFoodCache_kept == foodCacheFile

clearedFoodCache_emptied == OtherCacheFile

\* The cache file after clearFoodCache: unlinked if it exists.
clearedFoodCache == NoCacheFile

\* Faulty variants: the cache is never valid; the bound is inclusive.
isCacheValid_never(timeDiff) == timeDiff < 0

isCacheValid_inclusive(timeDiff) == timeDiff <= CACHE_DURATION_MS

\* "If cache is still valid (less than 12 hours old)"
isCacheValid(timeDiff) == timeDiff < CACHE_DURATION_MS

-----------------------------------------------------------------------------
(* The catalog.                                                            *)

NoFoodsFile == [exists |-> FALSE, content |-> <<>>]

\* Faulty variant: empty lines are kept.
nonEmptyLine_any(line) == TRUE

\* .filter((line) => line.length > 0)
nonEmptyLine(line) == Len(line) > 0

loadFoodList ==
    IF ~foodsFile.exists THEN <<>>
    ELSE LET lines == splitLines(foodsFile.content)
             trimmed == [i \in 1..Len(lines) |-> trim(lines[i])]
         IN  SelectSeq(trimmed, nonEmptyLine)

\* Faulty variant: Math.floor(Math.random()) * length, always 0.
randomIndex_first(r, length) == 0

\* Math.floor(Math.random() * length), Math.random() being r / RandDen.
randomIndex(r, length) == (r * length) \div RandDen

None == [some |-> FALSE, food |-> <<>>]
Some(food) == [some |-> TRUE, food |-> food]

getRandomFood(forceNew) ==
    LET cache == loadFoodCache
        timeDiff == now - cache.timestamp
        hit == ~forceNew /\ cache.hasFood /\ cache.hasTimestamp /\ isCacheValid(timeDiff)
        foods == loadFoodList
    IN  IF ~forceNew /\ cache.isNull
        \* cache.food on null: an uncaught TypeError
        THEN /\ last' = Call("getRandomFood", forceNew, Raised("TypeError"), "")
             /\ UNCHANGED <<foodsFile, foodCacheFile, adminsFile, restrictedFile, now>>
        ELSE IF hit
        THEN /\ last' = Call("getRandomFood", forceNew, Some(cache.food),
                             "Returning cached food")
             /\ UNCHANGED <<foodsFile, foodCacheFile, adminsFile, restrictedFile, now>>
        ELSE IF Len(foods) = 0
        THEN /\ last' = Call("getRandomFood", forceNew, None, "")
             /\ UNCHANGED <<foodsFile, foodCacheFile, adminsFile, restrictedFile, now>>
        ELSE \E r \in 0..(RandDen - 1) :
                LET food == foods[randomIndex(r, Len(foods)) + 1]
                IN  /\ foodCacheFile' = saveFoodCache(food)
                    /\ last' = Call("getRandomFood", forceNew, Some(food),
                                    "Selected new random food")
                    /\ UNCHANGED <<foodsFile, adminsFile, restrictedFile, now>>

clearFoodCache ==
    /\ foodCacheFile' = IF foodCacheFile.kind # "absent" THEN clearedFoodCache
                        ELSE foodCacheFile
    /\ last' = Call("clearFoodCache", NoValue, NoValue,
                    IF foodCacheFile.kind # "absent"
                    THEN "Food cache cleared successfully" ELSE "")
    /\ UNCHANGED <<foodsFile, adminsFile, restrictedFile, now>>

\* const trimmedFood = food.trim()
trimmedFood(food) == trim(food)

addFoodToList(food) ==
    LET existingFoods == loadFoodList
        t == trimmedFood(food)
        content == IF foodsFile.exists THEN foodsFile.content ELSE <<>>
    IN  IF includes(existingFoods, t)
        THEN /\ last' = Call("addFoodToList", food, FALSE, "already exists in the list")
             /\ UNCHANGED <<foodsFile, foodCacheFile, adminsFile, restrictedFile, now>>
        ELSE /\ Len(content) + 1 + Len(t) <= MaxFileLen
             \* appendFileSync(filePath, `\n${trimmedFood}`)
             /\ foodsFile' = [exists |-> TRUE, content |-> content \o <<NL>> \o t]
             /\ last' = Call("addFoodToList", food, TRUE, "Added new food")
             /\ UNCHANGED <<foodCacheFile, adminsFile, restrictedFile, now>>

\* Faulty variant: the index addresses the order of the file.
sortedForRemoval_unsorted(foods) == foods

\* existingFoods.sort(): "to match the display order in /foodlist"
sortedForRemoval(foods) == sort(foods)

Result(success, message) == [success |-> success, message |-> message]

\* Faulty variant: the range reported ends one short.
invalidIndexMessage_offByOne(count) ==
    [text |-> "Invalid index. Please use a number between", from |-> 1, to |-> count - 1]

\* `Invalid index. Please use a number between 1 and ${existingFoods.length}`
invalidIndexMessage(count) ==
    [text |-> "Invalid index. Please use a number between", from |-> 1, to |-> count]

\* Faulty variant: the cached food is compared as it is written.
isCachedFood_caseSensitive(cache, food) == cache.hasFood /\ cache.food = food

\* cache.food && cache.food.toLowerCase() === removedFood.toLowerCase()
isCachedFood(cache, food) ==
    cache.hasFood /\ toLowerCase(cache.food) = toLowerCase(food)

removeFoodByIndex(index) ==
    LET loaded == loadFoodList
        existingFoods == sortedForRemoval(loaded)
        zeroIndex == index - 1
        removedFood == existingFoods[zeroIndex + 1]
        cache == loadFoodCache
    IN  IF Len(loaded) = 0
        THEN /\ last' = Call("removeFoodByIndex", index,
                             Result(FALSE, [text |-> "Food list is empty"]), "")
             /\ UNCHANGED <<foodsFile, foodCacheFile, adminsFile, restrictedFile, now>>
        ELSE IF zeroIndex < 0 \/ zeroIndex >= Len(existingFoods)
        THEN /\ last' = Call("removeFoodByIndex", index,
                             Result(FALSE, invalidIndexMessage(Len(existingFoods))), "")
             /\ UNCHANGED <<foodsFile, foodCacheFile, adminsFile, restrictedFile, now>>
        ELSE IF cache.isNull
        \* the file is written, then cache.food on null throws into the catch
        THEN /\ foodsFile' = [exists |-> TRUE,
                              content |-> joinLines(removeAt(existingFoods, zeroIndex + 1))]
             /\ last' = Call("removeFoodByIndex", index,
                             Result(FALSE, [text |-> "Error removing food"]),
                             "Error removing food from list")
             /\ UNCHANGED <<foodCacheFile, adminsFile, restrictedFile, now>>
        ELSE /\ foodsFile' = [exists |-> TRUE,
                              content |-> joinLines(removeAt(existingFoods, zeroIndex + 1))]
             /\ foodCacheFile' =
                    IF isCachedFood(cache, removedFood)
                    THEN clearedFoodCache
                    ELSE foodCacheFile
             /\ last' = Call("removeFoodByIndex", index,
                             Result(TRUE, [text |-> "Removed", food |-> removedFood]),
                             "Removed food")
             /\ UNCHANGED <<adminsFile, restrictedFile, now>>

\* String.prototype.includes: sub occurs in s.
strIncludes(s, sub) ==
    \E i \in 0..(Len(s) - Len(sub)) : SubSeq(s, i + 1, i + Len(sub)) = sub

\* Faulty variant: the match is case-sensitive.
isExactMatch_caseSensitive(f, foodLower) == f = foodLower

\* f.toLowerCase() === foodLower
isExactMatch(f, foodLower) == toLowerCase(f) = foodLower

\* The number of candidates the message names: partialMatches.slice(0, 5).
SuggestionLimit == 5

\* Faulty variant: every candidate is named.
suggestions_all(partialMatches) == partialMatches

\* partialMatches.slice(0, 5)
suggestions(partialMatches) ==
    SubSeq(partialMatches, 1,
           IF Len(partialMatches) < SuggestionLimit THEN Len(partialMatches)
           ELSE SuggestionLimit)

\* partialMatches.length > 5 ? partialMatches.length - 5 : (no "more" text), as 0
moreCount(partialMatches) ==
    IF Len(partialMatches) > SuggestionLimit
    THEN Len(partialMatches) - SuggestionLimit
    ELSE 0

removeFoodFromList(food) ==
    LET existingFoods == loadFoodList
        foodLower == toLowerCase(trim(food))
        matches == SelectSeq(existingFoods, LAMBDA f : isExactMatch(f, foodLower))
        partialMatches ==
            SelectSeq(existingFoods, LAMBDA f : strIncludes(toLowerCase(f), foodLower))
        updatedFoods == SelectSeq(existingFoods, LAMBDA f : ~isExactMatch(f, foodLower))
        cache == loadFoodCache
    IN  IF Len(existingFoods) = 0
        THEN /\ last' = Call("removeFoodFromList", food,
                             Result(FALSE, [text |-> "Food list is empty"]), "")
             /\ UNCHANGED <<foodsFile, foodCacheFile, adminsFile, restrictedFile, now>>
        ELSE IF Len(matches) = 0
        THEN /\ last' = Call("removeFoodFromList", food,
                             Result(FALSE,
                                    IF Len(partialMatches) > 0
                                    THEN [text |-> "not found exactly. Did you mean one of",
                                          food |-> food,
                                          candidates |-> suggestions(partialMatches),
                                          more |-> moreCount(partialMatches)]
                                    ELSE [text |-> "not found in the list", food |-> food]),
                             "")
             /\ UNCHANGED <<foodsFile, foodCacheFile, adminsFile, restrictedFile, now>>
        ELSE IF cache.isNull
        \* the file is written, then cache.food on null throws into the catch
        THEN /\ foodsFile' = [exists |-> TRUE, content |-> joinLines(updatedFoods)]
             /\ last' = Call("removeFoodFromList", food,
                             Result(FALSE, [text |-> "Error removing food"]),
                             "Error removing food from list")
             /\ UNCHANGED <<foodCacheFile, adminsFile, restrictedFile, now>>
        ELSE /\ foodsFile' = [exists |-> TRUE, content |-> joinLines(updatedFoods)]
             /\ foodCacheFile' =
                    IF \E i \in 1..Len(matches) : isCachedFood(cache, matches[i])
                    THEN clearedFoodCache
                    ELSE foodCacheFile
             /\ last' = Call("removeFoodFromList", food,
                             Result(TRUE,
                                    IF Len(matches) > 1
                                    THEN [text |-> "Removed items matching",
                                          count |-> Len(matches), food |-> food]
                                    ELSE [text |-> "Removed", food |-> matches[1]]),
                             "Removed food")
             /\ UNCHANGED <<adminsFile, restrictedFile, now>>

\* One line of the numbered list: `${i + 1}. ${food}`
NumberedLine(number, food) == [number |-> number, food |-> food]

\* Faulty variant: an empty catalog yields an empty text.
getAllFoods_noMessage ==
    LET foods == sort(loadFoodList)
    IN  [foods |-> foods,
         formattedText |-> [i \in 1..Len(foods) |-> NumberedLine(i, foods[i])]]

\* getAllFoods(filePath, numbered = true): the sorted foods and the lines
\* of formattedText.
getAllFoods ==
    LET foods == sort(loadFoodList)
    IN  IF Len(foods) = 0
        THEN [foods |-> <<>>, formattedText |-> <<"No foods available in the list.">>]
        ELSE [foods |-> foods,
              formattedText |-> [i \in 1..Len(foods) |-> NumberedLine(i, foods[i])]]

-----------------------------------------------------------------------------
(* The role registry.                                                      *)

\* Default admin usernames (without @)
DEFAULT_ADMINS == << <<"n", "g", "u", "y", "e", "n", "v", "i", "e", "t", "0", "2">> >>

\* List of restricted usernames
RESTRICTED_USERS == << <<"p", "h", "u", "o", "n", "g", "t", "u", "n", "g", "9", "9">> >>

NoRoleFile == [kind |-> "absent", items |-> <<>>]
ArrayFile(items) == [kind |-> "array", items |-> items]
\* Role files the program does not write itself: a parsable text that is no
\* array (such as {} or null), and an unparsable text.
NotArrayFile == [kind |-> "notArray", items |-> <<>>]
UnparsableFile == [kind |-> "unparsable", items |-> <<>>]

\* An array element that is no string (such as a number).
NonString == <<"number">>
\* typeof u === "string"
isString(u) == u # NonString

\* Array.from(new Set(list)): the first occurrence of each exact value.
RECURSIVE uniqueInOrder(_)
uniqueInOrder(list) ==
    IF Len(list) = 0 THEN <<>>
    ELSE LET init == uniqueInOrder(SubSeq(list, 1, Len(list) - 1))
             x == list[Len(list)]
         IN  IF includes(init, x) THEN init ELSE Append(init, x)

\* username.startsWith("@") ? username.slice(1) : username
cleanUsername(username) ==
    IF Len(username) > 0 /\ Head(username) = "@" THEN Tail(username) ELSE username

\* list.some((u) => u.toLowerCase() === usernameLower)
someEqualsLower(list, usernameLower) ==
    \E i \in 1..Len(list) : toLowerCase(list[i]) = usernameLower

\* list.findIndex((u) => u.toLowerCase() === usernameLower), 1-based; 0 for -1.
findIndexLower(list, usernameLower) ==
    IF someEqualsLower(list, usernameLower)
    THEN CHOOSE i \in 1..Len(list) :
             /\ toLowerCase(list[i]) = usernameLower
             /\ \A j \in 1..(i - 1) : toLowerCase(list[j]) # usernameLower
    ELSE 0

\* Faulty variant: the seed list is not merged in.
withDefaults_omitted(list) == list

\* "Ensure defaults are always present": [...DEFAULT_ADMINS, ...list]
withDefaults(list) == DEFAULT_ADMINS \o list

\* Faulty variant: duplicates are kept.
dedupe_none(list) == list

\* Array.from(new Set(list))
dedupe(list) == uniqueInOrder(list)

loadAdmins ==
    IF adminsFile.kind \in {"absent", "unparsable"}
    THEN DEFAULT_ADMINS
    ELSE LET \* Array.isArray(admins) ? admins : []
             list == IF adminsFile.kind = "array" THEN adminsFile.items ELSE <<>>
             merged == withDefaults(list)
             trimmed == [i \in 1..Len(merged) |->
                            IF isString(merged[i]) THEN trim(merged[i]) ELSE <<>>]
         IN  SelectSeq(dedupe(trimmed), nonEmptyLine)

\* getAllAdmins: return loadAdmins()
getAllAdmins == loadAdmins

\* Faulty variant: only the entry written last reaches the file.
saveAdmins_lastOnly(admins) ==
    ArrayFile(IF Len(admins) = 0 THEN <<>> ELSE <<admins[Len(admins)]>>)

\* The file saveAdmins writes.
saveAdmins(admins) == ArrayFile(admins)

isAdmin(username) ==
    /\ Len(username) > 0
    /\ someEqualsLower(loadAdmins, toLowerCase(cleanUsername(username)))

\* loadRestrictedUsersFromDB: the list it returns and the file it leaves
\* (a missing file is created from the legacy list).
\* Whether JSON.parse(data), which is returned as it is, is an array.
parsedIsArray(kind) == kind = "array"

\* Faulty variant: the legacy list is merged into the stored one.
parsedUsers_merged(items) == dedupe(RESTRICTED_USERS \o items)

\* return JSON.parse(data): the stored list as it is
parsedUsers(items) == items

loadRestrictedUsersFromDB ==
    IF restrictedFile.kind = "absent"
    THEN [isArray |-> TRUE, users |-> RESTRICTED_USERS,
          file |-> ArrayFile(RESTRICTED_USERS)]
    ELSE IF restrictedFile.kind = "unparsable"
    THEN [isArray |-> TRUE, users |-> RESTRICTED_USERS, file |-> restrictedFile]
    ELSE [isArray |-> parsedIsArray(restrictedFile.kind),
          users |-> parsedUsers(restrictedFile.items), file |-> restrictedFile]

\* Faulty variant: an empty list removes the file.
saveRestrictedUsersToDB_emptyDeletes(users) ==
    IF Len(users) = 0 THEN NoRoleFile ELSE ArrayFile(users)

\* The file saveRestrictedUsersToDB writes.
saveRestrictedUsersToDB(users) == ArrayFile(users)

\* isRestrictedUser ends in a TypeError (restrictedUsers.join is not a
\* function) when the loaded value is no array.
isRestrictedUserRaises(username) ==
    Len(username) > 0 /\ ~loadRestrictedUsersFromDB.isArray

\* Faulty variant: no test of an absent username.
isRestrictedUser_noEmptyTest(username) ==
    someEqualsLower(loadRestrictedUsersFromDB.users,
                    toLowerCase(cleanUsername(username)))

\* The value isRestrictedUser returns.
isRestrictedUser(username) ==
    /\ Len(username) > 0
    /\ someEqualsLower(loadRestrictedUsersFromDB.users,
                       toLowerCase(cleanUsername(username)))

Message(text, username) == [text |-> text, username |-> username]

addAdmin(username) ==
    LET clean == cleanUsername(username)
        admins == loadAdmins
    IN  IF Len(username) = 0
        THEN /\ last' = Call("addAdmin", username,
                             Result(FALSE, Message("Please provide a username", <<>>)), "")
             /\ UNCHANGED <<foodsFile, foodCacheFile, adminsFile, restrictedFile, now>>
        ELSE IF someEqualsLower(admins, toLowerCase(clean))
        THEN /\ last' = Call("addAdmin", username,
                             Result(FALSE, Message("is already an admin", clean)), "")
             /\ UNCHANGED <<foodsFile, foodCacheFile, adminsFile, restrictedFile, now>>
        ELSE /\ adminsFile' = saveAdmins(Append(admins, clean))
             /\ last' = Call("addAdmin", username,
                             Result(TRUE, Message("Added as admin", clean)), "Added admin")
             /\ UNCHANGED <<foodsFile, foodCacheFile, restrictedFile, now>>

removeAdmin(username) ==
    LET clean == cleanUsername(username)
        admins == loadAdmins
        index == findIndexLower(admins, toLowerCase(clean))
    IN  IF Len(username) = 0
        THEN /\ last' = Call("removeAdmin", username,
                             Result(FALSE, Message("Please provide a username", <<>>)), "")
             /\ UNCHANGED <<foodsFile, foodCacheFile, adminsFile, restrictedFile, now>>
        ELSE IF index = 0
        THEN /\ last' = Call("removeAdmin", username,
                             Result(FALSE, Message("is not an admin", clean)), "")
             /\ UNCHANGED <<foodsFile, foodCacheFile, adminsFile, restrictedFile, now>>
        ELSE /\ adminsFile' = saveAdmins(removeAt(admins, index))
             /\ last' = Call("removeAdmin", username,
                             Result(TRUE, Message("Removed from admins", clean)),
                             "Removed admin")
             /\ UNCHANGED <<foodsFile, foodCacheFile, restrictedFile, now>>

addRestrictedUser(username) ==
    LET clean == cleanUsername(username)
        loaded == loadRestrictedUsersFromDB
        users == loaded.users
    IN  IF Len(username) = 0
        THEN /\ last' = Call("addRestrictedUser", username,
                             Result(FALSE, Message("Please provide a username", <<>>)), "")
             /\ UNCHANGED <<foodsFile, foodCacheFile, adminsFile, restrictedFile, now>>
        ELSE IF ~loaded.isArray
        \* users.some is not a function: an uncaught TypeError
        THEN /\ last' = Call("addRestrictedUser", username, Raised("TypeError"), "")
             /\ UNCHANGED <<foodsFile, foodCacheFile, adminsFile, restrictedFile, now>>
        ELSE IF someEqualsLower(users, toLowerCase(clean))
        THEN /\ restrictedFile' = loaded.file
             /\ last' = Call("addRestrictedUser", username,
                             Result(FALSE, Message("is already restricted", clean)), "")
             /\ UNCHANGED <<foodsFile, foodCacheFile, adminsFile, now>>
        ELSE /\ restrictedFile' = saveRestrictedUsersToDB(Append(users, clean))
             /\ last' = Call("addRestrictedUser", username,
                             Result(TRUE, Message("restricted", clean)),
                             "Added restricted user")
             /\ UNCHANGED <<foodsFile, foodCacheFile, adminsFile, now>>

removeRestrictedUser(username) ==
    LET clean == cleanUsername(username)
        loaded == loadRestrictedUsersFromDB
        users == loaded.users
        index == findIndexLower(users, toLowerCase(clean))
    IN  IF Len(username) = 0
        THEN /\ last' = Call("removeRestrictedUser", username,
                             Result(FALSE, Message("Please provide a username", <<>>)), "")
             /\ UNCHANGED <<foodsFile, foodCacheFile, adminsFile, restrictedFile, now>>
        ELSE IF ~loaded.isArray
        \* users.findIndex is not a function: an uncaught TypeError
        THEN /\ last' = Call("removeRestrictedUser", username, Raised("TypeError"), "")
             /\ UNCHANGED <<foodsFile, foodCacheFile, adminsFile, restrictedFile, now>>
        ELSE IF index = 0
        THEN /\ restrictedFile' = loaded.file
             /\ last' = Call("removeRestrictedUser", username,
                             Result(FALSE, Message("is not in the restricted list", clean)), "")
             /\ UNCHANGED <<foodsFile, foodCacheFile, adminsFile, now>>
        ELSE /\ restrictedFile' = saveRestrictedUsersToDB(removeAt(users, index))
             /\ last' = Call("removeRestrictedUser", username,
                             Result(TRUE, Message("unrestricted", clean)),
                             "Removed restricted user")
             /\ UNCHANGED <<foodsFile, foodCacheFile, adminsFile, now>>

-----------------------------------------------------------------------------
(* The clock: it advances to a later instant of a sample grid that holds   *)
(* the instants just before, at and just after each cache window's end.    *)

Times ==
    {t \in UNION {{k * CACHE_DURATION_MS - 1, k * CACHE_DURATION_MS,
                   k * CACHE_DURATION_MS + 1} : k \in 0..MaxWindows} : t >= 0}

Tick ==
    /\ \E t \in Times : t > now /\ now' = t
    /\ UNCHANGED <<foodsFile, foodCacheFile, adminsFile, restrictedFile, last, prev, pending>>

-----------------------------------------------------------------------------
(* The mutating operations when the disk refuses the write: writeFileSync, *)
(* appendFileSync and unlinkSync throw, and nothing is written.            *)

\* The error a refused write throws.
WriteError == Raised("WriteError")

\* The append throws inside the try: the catch logs and returns false.
addFoodToListOnWriteError(food) ==
    /\ last' = IF includes(loadFoodList, trimmedFood(food))
               THEN Call("addFoodToList", food, FALSE, "already exists in the list")
               ELSE Call("addFoodToList", food, FALSE, "Error adding food to list")
    /\ UNCHANGED <<foodsFile, foodCacheFile, adminsFile, restrictedFile, now>>

\* The write throws inside the try: the catch logs and returns a failure.
removeFoodByIndexOnWriteError(index) ==
    LET existingFoods == loadFoodList
        zeroIndex == index - 1
    IN  /\ last' = IF Len(existingFoods) = 0
                   THEN Call("removeFoodByIndex", index,
                             Result(FALSE, [text |-> "Food list is empty"]), "")
                   ELSE IF zeroIndex < 0 \/ zeroIndex >= Len(existingFoods)
                   THEN Call("removeFoodByIndex", index,
                             Result(FALSE, invalidIndexMessage(Len(existingFoods))), "")
                   ELSE Call("removeFoodByIndex", index,
                             Result(FALSE, [text |-> "Error removing food"]),
                             "Error removing food from list")
        /\ UNCHANGED <<foodsFile, foodCacheFile, adminsFile, restrictedFile, now>>

\* saveFoodCache is called outside any try: the error leaves getRandomFood.
getRandomFoodOnWriteError(forceNew) ==
    LET cache == loadFoodCache
        timeDiff == now - cache.timestamp
        hit == ~forceNew /\ cache.hasFood /\ cache.hasTimestamp /\ isCacheValid(timeDiff)
    IN  /\ last' = IF hit
                   THEN Call("getRandomFood", forceNew, Some(cache.food),
                             "Returning cached food")
                   ELSE IF Len(loadFoodList) = 0
                   THEN Call("getRandomFood", forceNew, None, "")
                   ELSE Call("getRandomFood", forceNew, WriteError,
                             "Selected new random food")
        /\ UNCHANGED <<foodsFile, foodCacheFile, adminsFile, restrictedFile, now>>

\* unlinkSync throws inside the try: the catch logs, and clearFoodCache
\* returns as it does after a deletion.
clearFoodCacheOnWriteError ==
    /\ last' = Call("clearFoodCache", NoValue, NoValue,
                    IF foodCacheFile.kind # "absent"
                    THEN "Error clearing food cache" ELSE "")
    /\ UNCHANGED <<foodsFile, foodCacheFile, adminsFile, restrictedFile, now>>

\* saveAdmins is called outside any try: the error leaves addAdmin.
addAdminOnWriteError(username) ==
    LET clean == cleanUsername(username)
    IN  /\ last' = IF Len(username) = 0
                   THEN Call("addAdmin", username,
                             Result(FALSE, Message("Please provide a username", <<>>)), "")
                   ELSE IF someEqualsLower(loadAdmins, toLowerCase(clean))
                   THEN Call("addAdmin", username,
                             Result(FALSE, Message("is already an admin", clean)), "")
                   ELSE Call("addAdmin", username, WriteError, "")
        /\ UNCHANGED <<foodsFile, foodCacheFile, adminsFile, restrictedFile, now>>

\* saveAdmins is called outside any try: the error leaves removeAdmin.
removeAdminOnWriteError(username) ==
    LET clean == cleanUsername(username)
    IN  /\ last' = IF Len(username) = 0
                   THEN Call("removeAdmin", username,
                             Result(FALSE, Message("Please provide a username", <<>>)), "")
                   ELSE IF findIndexLower(loadAdmins, toLowerCase(clean)) = 0
                   THEN Call("removeAdmin", username,
                             Result(FALSE, Message("is not an admin", clean)), "")
                   ELSE Call("removeAdmin", username, WriteError, "")
        /\ UNCHANGED <<foodsFile, foodCacheFile, adminsFile, restrictedFile, now>>

\* saveRestrictedUsersToDB is called outside any try, by the load of a
\* missing file too: the error leaves addRestrictedUser.
addRestrictedUserOnWriteError(username) ==
    LET clean == cleanUsername(username)
        users == loadRestrictedUsersFromDB.users
    IN  /\ last' = IF Len(username) = 0
                   THEN Call("addRestrictedUser", username,
                             Result(FALSE, Message("Please provide a username", <<>>)), "")
                   ELSE IF restrictedFile.kind = "absent"
                   THEN Call("addRestrictedUser", username, WriteError, "")
                   ELSE IF someEqualsLower(users, toLowerCase(clean))
                   THEN Call("addRestrictedUser", username,
                             Result(FALSE, Message("is already restricted", clean)), "")
                   ELSE Call("addRestrictedUser", username, WriteError, "")
        /\ UNCHANGED <<foodsFile, foodCacheFile, adminsFile, restrictedFile, now>>

-----------------------------------------------------------------------------
(* The command handlers. A handler is an async function: it runs up to its *)
(* first await when its update is dispatched, and its continuation runs    *)
(* after every update of the same batch has been dispatched.               *)

AdminCommands ==
    {"/addadmin", "/removeadmin", "/restrict", "/unrestrict", "/listadmins",
     "/listrestricted"}

\* An inbound command: the sender's username (empty when the account has
\* none) and the text after the command (empty when there is none).
Command(command, sender, arg) == [command |-> command, sender |-> sender, arg |-> arg]

\* The handler reaches `await checkAdminPermission(...)` or
\* `await checkCommandRestriction(...)` and is resumed later.
Suspend(h) == pending' = [queue |-> Append(pending.queue, h), draining |-> FALSE]

\* The part of a handler after its permission check: the test of the
\* argument and the call into the core.
Run(h) ==
    IF /\ h.command \in {"/addadmin", "/removeadmin", "/restrict", "/unrestrict", "/addfood"}
       /\ Len(trim(h.arg)) = 0
    THEN /\ last' = Call(h.command, h.arg, NoValue, "Please specify")
         /\ UNCHANGED <<foodsFile, foodCacheFile, adminsFile, restrictedFile, now>>
    ELSE CASE h.command = "/addadmin" -> addAdmin(trim(h.arg))
           [] h.command = "/removeadmin" -> removeAdmin(trim(h.arg))
           [] h.command = "/restrict" -> addRestrictedUser(trim(h.arg))
           [] h.command = "/unrestrict" -> removeRestrictedUser(trim(h.arg))
           [] h.command = "/listadmins" ->
                /\ last' = Call("getAllAdmins", NoValue, getAllAdmins, "")
                /\ UNCHANGED <<foodsFile, foodCacheFile, adminsFile, restrictedFile, now>>
           [] h.command = "/listrestricted" ->
                /\ restrictedFile' = loadRestrictedUsersFromDB.file
                /\ last' = Call("getAllRestrictedUsers", NoValue,
                                loadRestrictedUsersFromDB.users, "")
                /\ UNCHANGED <<foodsFile, foodCacheFile, adminsFile, now>>
           [] h.command = "/addfood" -> addFoodToList(h.arg)
           [] h.command = "/clearfood" -> clearFoodCache

\* An update is dispatched: the handler runs up to its first await.
Deliver(h) ==
    /\ ~pending.draining
    /\ Len(pending.queue) < MaxPending
    /\ IF h.command \in AdminCommands
       THEN IF isAdmin(h.sender)
            THEN /\ Suspend(h)
                 /\ last' = Call("checkAdminPermission", h.sender, FALSE, "")
                 /\ UNCHANGED <<foodsFile, foodCacheFile, adminsFile, restrictedFile, now>>
            ELSE /\ last' = Call("checkAdminPermission", h.sender, TRUE,
                                 "attempted admin command without permission")
                 /\ UNCHANGED <<foodsFile, foodCacheFile, adminsFile, restrictedFile,
                                now, pending>>
       ELSE IF Len(h.sender) = 0
            \* if (user.username) { await ... }: no check and no await
            THEN Run(h) /\ UNCHANGED pending
            ELSE /\ restrictedFile' = loadRestrictedUsersFromDB.file
                 /\ UNCHANGED <<foodsFile, foodCacheFile, adminsFile, now>>
                 /\ IF isRestrictedUser(h.sender)
                    THEN /\ last' = Call("checkCommandRestriction", h.sender, TRUE,
                                         "is restricted, sending VIP message")
                         /\ UNCHANGED pending
                    ELSE /\ Suspend(h)
                         /\ last' = Call("checkCommandRestriction", h.sender, FALSE,
                                         "is not restricted")
    /\ UNCHANGED prev

\* The continuation of the handler suspended first is run.
Resume ==
    /\ Len(pending.queue) > 0
    /\ Run(Head(pending.queue))
    /\ pending' = [queue |-> Tail(pending.queue), draining |-> Len(pending.queue) > 1]
    /\ UNCHANGED prev

-----------------------------------------------------------------------------
(* Initial states and specifications.                                      *)

\* The catalog file the bot starts with: a list that is not in sorted order.
InitFoodsFile == [exists |-> TRUE, content |-> <<"B", NL, "A">>]

Init ==
    /\ foodsFile = InitFoodsFile
    /\ foodCacheFile = NoCacheFile
    /\ adminsFile = NoRoleFile
    /\ restrictedFile = NoRoleFile
    /\ now = 0
    /\ last = NoCall
    /\ prev = NoCall
    /\ pending = NoPending

\* One call of each load function; the call record holds what it returned.
LoadFoodList ==
    /\ last' = Call("loadFoodList", NoValue, loadFoodList,
                    IF foodsFile.exists THEN "Loaded foods from list"
                    ELSE "Food list file not found")
    /\ UNCHANGED <<foodsFile, foodCacheFile, adminsFile, restrictedFile, now, prev, pending>>

LoadFoodCache ==
    /\ last' = Call("loadFoodCache", NoValue, loadFoodCache,
                    IF foodCacheFile.kind = "unparsable"
                    THEN "Error loading food cache" ELSE "")
    /\ UNCHANGED <<foodsFile, foodCacheFile, adminsFile, restrictedFile, now, prev, pending>>

LoadAdmins ==
    /\ last' = Call("loadAdmins", NoValue, loadAdmins,
                    IF adminsFile.kind = "unparsable" THEN "Error loading admins" ELSE "")
    /\ UNCHANGED <<foodsFile, foodCacheFile, adminsFile, restrictedFile, now, prev, pending>>

LoadRestrictedUsersFromDB ==
    /\ restrictedFile' = loadRestrictedUsersFromDB.file
    /\ last' = Call("loadRestrictedUsersFromDB", NoValue,
                    [isArray |-> loadRestrictedUsersFromDB.isArray,
                     users |-> loadRestrictedUsersFromDB.users],
                    IF restrictedFile.kind = "unparsable"
                    THEN "Error loading restricted users" ELSE "")
    /\ UNCHANGED <<foodsFile, foodCacheFile, adminsFile, now, prev, pending>>

\* One call of isRestrictedUser, as checkCommandRestriction makes it.
CheckRestricted(username) ==
    /\ restrictedFile' = IF Len(username) = 0 THEN restrictedFile
                         ELSE loadRestrictedUsersFromDB.file
    /\ last' = Call("isRestrictedUser", username,
                    IF isRestrictedUserRaises(username) THEN Raised("TypeError")
                    ELSE isRestrictedUser(username),
                    "")
    /\ UNCHANGED <<foodsFile, foodCacheFile, adminsFile, now, prev, pending>>

\* One call of each of the other read-only operations.
GetAllFoods ==
    /\ last' = Call("getAllFoods", NoValue, getAllFoods, "")
    /\ UNCHANGED <<foodsFile, foodCacheFile, adminsFile, restrictedFile, now, prev, pending>>

IsAdmin(username) ==
    /\ last' = Call("isAdmin", username, isAdmin(username), "")
    /\ UNCHANGED <<foodsFile, foodCacheFile, adminsFile, restrictedFile, now, prev, pending>>

GetAllAdmins ==
    /\ last' = Call("getAllAdmins", NoValue, getAllAdmins, "")
    /\ UNCHANGED <<foodsFile, foodCacheFile, adminsFile, restrictedFile, now, prev, pending>>

GetAllRestrictedUsers ==
    /\ restrictedFile' = loadRestrictedUsersFromDB.file
    /\ last' = Call("getAllRestrictedUsers", NoValue,
                    [isArray |-> loadRestrictedUsersFromDB.isArray,
                     users |-> loadRestrictedUsersFromDB.users],
                    IF restrictedFile.kind = "unparsable"
                    THEN "Error loading restricted users" ELSE "")
    /\ UNCHANGED <<foodsFile, foodCacheFile, adminsFile, now, prev, pending>>

\* The texts passed to addFoodToList.
FoodTexts == {<<"A">>, <<"a">>, <<" ", "A", " ">>, <<" ">>}

\* The texts passed to removeFoodFromList.
RemoveTexts == {<<"a">>, <<" ", "b">>, <<" ">>}

\* The suggestion cache over a catalog that shrinks, with the clock.
NextCache ==
    \/ /\ \E forceNew \in BOOLEAN : getRandomFood(forceNew)
       /\ prev' = last
       /\ UNCHANGED pending
    \/ /\ clearFoodCache
       /\ prev' = last
       /\ UNCHANGED pending
    \/ /\ \E index \in 1..MaxIndex : removeFoodByIndex(index)
       /\ prev' = last
       /\ UNCHANGED pending
    \/ Tick

SpecCache == Init /\ [][NextCache]_vars

\* The removals and the suggestion cache, with the clock.
NextRemoval ==
    \/ /\ addFoodToList(<<"a">>)
       /\ prev' = last
       /\ UNCHANGED pending
    \/ /\ getRandomFood(FALSE)
       /\ prev' = last
       /\ UNCHANGED pending
    \/ /\ \E index \in 1..MaxIndex : removeFoodByIndex(index)
       /\ prev' = last
       /\ UNCHANGED pending
    \/ /\ \E food \in RemoveTexts : removeFoodFromList(food)
       /\ prev' = last
       /\ UNCHANGED pending
    \/ Tick

SpecRemoval == Init /\ [][NextRemoval]_vars

\* The usernames passed to the role registry next to the catalog.
PathUsernames == {RESTRICTED_USERS[1]}

\* The operations of the catalog, of the cache and of the role registry
\* side by side.
NextPaths ==
    \/ /\ \/ addFoodToList(<<"a">>)
          \/ \E index \in 1..MaxIndex : removeFoodByIndex(index)
          \/ \E food \in RemoveTexts : removeFoodFromList(food)
          \/ getRandomFood(FALSE)
          \/ clearFoodCache
       /\ prev' = last
       /\ UNCHANGED pending
    \/ /\ \E username \in PathUsernames :
             \/ addAdmin(username)
             \/ removeAdmin(username)
             \/ addRestrictedUser(username)
             \/ removeRestrictedUser(username)
       /\ UNCHANGED <<prev, pending>>
    \/ GetAllFoods
    \/ GetAllAdmins
    \/ GetAllRestrictedUsers
    \/ \E username \in PathUsernames : IsAdmin(username) \/ CheckRestricted(username)

SpecPaths == Init /\ [][NextPaths]_vars

\* Texts of every kind passed to addFoodToList: plain, padded, white space
\* only, and one with a line break inside.
AnyTexts == {<<"a">>, <<" ", "A", " ">>, <<" ">>, <<"a", NL, "B">>}

\* The catalog under texts of every kind.
NextTexts ==
    \/ /\ \E food \in AnyTexts : addFoodToList(food)
       /\ UNCHANGED <<prev, pending>>
    \/ /\ \E index \in 1..MaxIndex : removeFoodByIndex(index)
       /\ UNCHANGED <<prev, pending>>
    \/ /\ \E food \in RemoveTexts : removeFoodFromList(food)
       /\ UNCHANGED <<prev, pending>>

SpecTexts == Init /\ [][NextTexts]_vars

\* The catalog and the cache at one instant.
NextCatalog ==
    \/ /\ \E food \in FoodTexts : addFoodToList(food)
       /\ prev' = last
       /\ UNCHANGED pending
    \/ /\ \E index \in 0..MaxIndex : removeFoodByIndex(index)
       /\ prev' = last
       /\ UNCHANGED pending
    \/ /\ getRandomFood(FALSE)
       /\ prev' = last
       /\ UNCHANGED pending
    \/ /\ \E food \in RemoveTexts : removeFoodFromList(food)
       /\ prev' = last
       /\ UNCHANGED pending

SpecCatalog == Init /\ [][NextCatalog]_vars

\* The usernames passed to the role registry.
Usernames ==
    {<<>>, <<"@">>, <<"a", "b">>, <<"@", "A", "b">>, DEFAULT_ADMINS[1], RESTRICTED_USERS[1]}

\* The role registry.
NextRoles ==
    \/ /\ \E username \in Usernames : addAdmin(username)
       /\ UNCHANGED <<prev, pending>>
    \/ /\ \E username \in Usernames : removeAdmin(username)
       /\ UNCHANGED <<prev, pending>>
    \/ /\ \E username \in Usernames : addRestrictedUser(username)
       /\ UNCHANGED <<prev, pending>>
    \/ /\ \E username \in Usernames : removeRestrictedUser(username)
       /\ UNCHANGED <<prev, pending>>
    \/ LoadRestrictedUsersFromDB

SpecRoles == Init /\ [][NextRoles]_vars

\* A catalog file with six items that contain "a" and none that equals it.
SuggestFoodsFile ==
    [exists |-> TRUE,
     content |-> <<"b", "a", NL, "A", "b", NL, "a", "a", NL, "A", "@", NL,
                   "@", "a", NL, "a", " ", "b", NL, "B">>]

InitSuggest ==
    /\ foodsFile = SuggestFoodsFile
    /\ foodCacheFile = NoCacheFile
    /\ adminsFile = NoRoleFile
    /\ restrictedFile = NoRoleFile
    /\ now = 0
    /\ last = NoCall
    /\ prev = NoCall
    /\ pending = NoPending

\* The texts passed to removeFoodFromList over that catalog.
SuggestTexts == {<<"a">>, <<" ", "A", "B", " ">>, <<"b">>, <<"@", "@">>, <<" ">>}

\* Removal by text and by number over a catalog with many near matches.
NextSuggest ==
    \/ /\ \E food \in SuggestTexts : removeFoodFromList(food)
       /\ UNCHANGED <<prev, pending>>
    \/ /\ \E index \in 1..MaxIndex : removeFoodByIndex(index)
       /\ UNCHANGED <<prev, pending>>
    \/ /\ getRandomFood(FALSE)
       /\ UNCHANGED <<prev, pending>>

SpecSuggest == InitSuggest /\ [][NextSuggest]_vars

\* The documents found on disk when the bot starts, those a user or another
\* program left there included.
FoodsDocuments ==
    {NoFoodsFile, InitFoodsFile, [exists |-> TRUE, content |-> <<" ", NL>>],
     [exists |-> TRUE, content |-> <<"A", NL, "B", NL, "A">>]}

CacheDocuments ==
    {NoCacheFile, [kind |-> "entry", food |-> <<"A">>, timestamp |-> 0],
     NullCacheFile, OtherCacheFile, UnparsableCacheFile}

AdminDocuments ==
    {NoRoleFile, UnparsableFile, NotArrayFile, ArrayFile(<<>>),
     ArrayFile(<< <<"A", "b">>, <<"a", "b">> >>),
     ArrayFile(<< <<" ", "a", "b", " ">>, <<>>, NonString, <<"a", "b">> >>),
     ArrayFile(<< <<" ", "a", "b">>, <<>>, <<"a", "b">> >>)}

RestrictedDocuments ==
    {NoRoleFile, UnparsableFile, NotArrayFile, ArrayFile(<<>>),
     ArrayFile(<< <<"a", "b">> >>)}

InitLoad ==
    /\ foodsFile \in FoodsDocuments
    /\ foodCacheFile \in CacheDocuments
    /\ adminsFile \in AdminDocuments
    /\ restrictedFile \in RestrictedDocuments
    /\ now = 0
    /\ last = NoCall
    /\ prev = NoCall
    /\ pending = NoPending

\* The loads, the two queries every command starts with, and the removals,
\* over the documents found on disk.
NextLoad ==
    \/ LoadFoodList
    \/ LoadFoodCache
    \/ LoadAdmins
    \/ LoadRestrictedUsersFromDB
    \/ \E username \in Usernames : CheckRestricted(username)
    \/ /\ getRandomFood(FALSE)
       /\ UNCHANGED <<prev, pending>>
    \/ /\ \E index \in 1..MaxIndex : removeFoodByIndex(index)
       /\ UNCHANGED <<prev, pending>>
    \/ /\ \E food \in RemoveTexts : removeFoodFromList(food)
       /\ UNCHANGED <<prev, pending>>

SpecLoad == InitLoad /\ [][NextLoad]_vars

\* The usernames passed to the role registry while the disk may refuse.
WriteErrorUsernames == {<<>>, <<"a", "b">>, DEFAULT_ADMINS[1], RESTRICTED_USERS[1]}

\* Calls that are written through, and calls whose write the disk refuses.
NextWriteError ==
    \/ /\ getRandomFood(FALSE)
       /\ UNCHANGED <<prev, pending>>
    \/ /\ \E username \in WriteErrorUsernames : addAdmin(username)
       /\ UNCHANGED <<prev, pending>>
    \/ /\ \E username \in WriteErrorUsernames : addRestrictedUser(username)
       /\ UNCHANGED <<prev, pending>>
    \/ /\ \E food \in FoodTexts : addFoodToListOnWriteError(food)
       /\ UNCHANGED <<prev, pending>>
    \/ /\ \E index \in 0..MaxIndex : removeFoodByIndexOnWriteError(index)
       /\ UNCHANGED <<prev, pending>>
    \/ /\ \E forceNew \in BOOLEAN : getRandomFoodOnWriteError(forceNew)
       /\ UNCHANGED <<prev, pending>>
    \/ /\ clearFoodCacheOnWriteError
       /\ UNCHANGED <<prev, pending>>
    \/ /\ \E username \in WriteErrorUsernames : addAdminOnWriteError(username)
       /\ UNCHANGED <<prev, pending>>
    \/ /\ \E username \in WriteErrorUsernames : removeAdminOnWriteError(username)
       /\ UNCHANGED <<prev, pending>>
    \/ /\ \E username \in WriteErrorUsernames : addRestrictedUserOnWriteError(username)
       /\ UNCHANGED <<prev, pending>>

SpecWriteError == Init /\ [][NextWriteError]_vars

\* The commands that arrive: role commands from the seed admin, from a user
\* and from the legacy restricted user, catalog commands, role commands from
\* a sender without username, and role commands that name "@".
Inbound ==
    {Command(c, sender, arg) :
        c \in {"/addadmin", "/removeadmin", "/restrict"},
        sender \in {DEFAULT_ADMINS[1], <<"a", "b">>, RESTRICTED_USERS[1]},
        arg \in {<<"a", "b">>, RESTRICTED_USERS[1]}}
    \cup {Command("/listadmins", <<"a", "b">>, <<>>)}
    \cup {Command(c, <<>>, <<"a", "b">>) : c \in {"/addadmin", "/restrict"}}
    \cup {Command(c, DEFAULT_ADMINS[1], <<"@">>) : c \in {"/addadmin", "/restrict"}}
    \cup {Command(c, sender, <<"a">>) :
            c \in {"/addfood", "/clearfood"},
            sender \in {<<>>, <<"a", "b">>, RESTRICTED_USERS[1]}}

\* The bot: updates are dispatched, and suspended handlers are resumed.
NextHandlers ==
    \/ \E h \in Inbound : Deliver(h)
    \/ Resume

SpecHandlers == Init /\ [][NextHandlers]_vars

\* save(load(path)) for the two role-set files: the value the load returns
\* is written back.
RoundTripAdmins ==
    /\ adminsFile' = saveAdmins(loadAdmins)
    /\ last' = Call("saveAdmins", loadAdmins, NoValue, "")
    /\ prev' = last
    /\ UNCHANGED <<foodsFile, foodCacheFile, restrictedFile, now, pending>>

RoundTripRestricted ==
    /\ restrictedFile' =
          IF loadRestrictedUsersFromDB.isArray
          THEN saveRestrictedUsersToDB(loadRestrictedUsersFromDB.users)
          \* JSON.stringify of the parsed value that is no array
          ELSE restrictedFile
    /\ last' = Call("saveRestrictedUsersToDB", loadRestrictedUsersFromDB.users, NoValue, "")
    /\ prev' = last
    /\ UNCHANGED <<foodsFile, foodCacheFile, adminsFile, now, pending>>

\* Round trips over the documents found on disk.
NextRoundTrip ==
    \/ RoundTripAdmins
    \/ RoundTripRestricted

SpecRoundTrip == InitLoad /\ [][NextRoundTrip]_vars

-----------------------------------------------------------------------------
(* Claims about the role registry (SpecRoles).                             *)

\* C1: after any sequence of addAdmin, removeAdmin, addRestrictedUser and
\* removeRestrictedUser, no username is (case-insensitively) a member of
\* both the Privileged and the Restricted set.
C1_NoUserInBothRoles ==
    \A u \in Usernames : ~(isAdmin(u) /\ isRestrictedUser(u))

\* C2: for every username u that is a member of Restricted, after
\* addAdmin(u) returned success, isRestrictedUser(u) is false and
\* isAdmin(u) is true.
C2_PromotedIsNoLongerRestricted ==
    [][\A u \in Usernames :
          (isRestrictedUser(u) /\ last'.op = "addAdmin" /\ last'.arg = u
              /\ last'.ret.success)
          => (~isRestrictedUser(u) /\ isAdmin(u))']_vars

\* C3: for every username u that is a member of Privileged, after
\* addRestrictedUser(u) returned success, isAdmin(u) is false and
\* isRestrictedUser(u) is true.
C3_RestrictedIsNoLongerAdmin ==
    [][\A u \in Usernames :
          (isAdmin(u) /\ last'.op = "addRestrictedUser" /\ last'.arg = u
              /\ last'.ret.success)
          => (~isAdmin(u) /\ isRestrictedUser(u))']_vars

-----------------------------------------------------------------------------
(* Claims about the suggestion cache (SpecCache).                          *)

\* A step that is a call of getRandomFood(forceNew): the clock stands still
\* and the call record names it.
IsGetRandomFood(forceNew) ==
    /\ now' = now
    /\ last'.op = "getRandomFood"
    /\ last'.arg = forceNew

\* The cache entry is present and less than the TTL old.
CacheIsFresh ==
    /\ foodCacheFile.kind = "entry"
    /\ now - foodCacheFile.timestamp < 12 * 60 * 60 * 1000

\* C4, as stated: two consecutive getRandomFood(false) calls, the second
\* less than the TTL after the first, return the same value.
C4_SameWithinTtlOfFirstCall ==
    (/\ prev.op = "getRandomFood" /\ prev.arg = FALSE
     /\ last.op = "getRandomFood" /\ last.arg = FALSE
     /\ last.at - prev.at < 12 * 60 * 60 * 1000)
    => last.ret = prev.ret

\* C4, amended: two consecutive getRandomFood(false) calls return the same
\* value when the second is made less than the TTL after the timestamp of
\* the cache entry the first call left, or when the first call left none.
C4_SameWithinTtlOfSelection ==
    [][(/\ last.op = "getRandomFood" /\ last.arg = FALSE
        /\ IsGetRandomFood(FALSE)
        /\ foodCacheFile.kind = "entry" => CacheIsFresh)
       => last'.ret = last.ret]_vars

\* C4's case: a cache hit, then later a second hit with the same value.
C4_Witness ==
    /\ prev.op = "getRandomFood" /\ prev.arg = FALSE
    /\ prev.log = "Returning cached food"
    /\ last.op = "getRandomFood" /\ last.arg = FALSE
    /\ last.log = "Returning cached food"
    /\ last.at > prev.at
    /\ last.ret = prev.ret

\* C5, as stated: after every getRandomFood(forceNew=true) the cache entry's
\* timestamp is the time of that call.
C5_ForceNewAlwaysResets ==
    (last.op = "getRandomFood" /\ last.arg = TRUE)
    => (foodCacheFile.kind = "entry" /\ foodCacheFile.timestamp = last.at)

\* C5, amended: after getRandomFood(forceNew=true) on a non-empty catalog
\* the cache entry's timestamp is the time of that call, whatever the cache
\* was; on an empty catalog the call leaves the cache as it was.
C5_ForceNewResetsUnlessEmpty ==
    [][IsGetRandomFood(TRUE)
       => IF Len(loadFoodList) > 0
          THEN foodCacheFile'.kind = "entry" /\ foodCacheFile'.timestamp = now
          ELSE foodCacheFile' = foodCacheFile]_vars

\* C5's case: a forced call replaces an entry that was still fresh.
C5_Witness ==
    /\ prev.op = "getRandomFood" /\ prev.ret.some
    /\ last.op = "getRandomFood" /\ last.arg = TRUE
    /\ prev.at < last.at
    /\ last.at - prev.at < 12 * 60 * 60 * 1000
    /\ foodCacheFile.kind = "entry"
    /\ foodCacheFile.timestamp = last.at

\* C6: getRandomFood(false) returns the cached value without a new
\* selection iff a cache entry exists and now - timestamp < TTL; at an age
\* of the TTL or more a new selection is made and persisted.
C6_CachedIffStrictlyFresh ==
    [][IsGetRandomFood(FALSE)
       => /\ (last'.log = "Returning cached food") <=> CacheIsFresh
          /\ CacheIsFresh
                => /\ last'.ret = Some(foodCacheFile.food)
                   /\ foodCacheFile' = foodCacheFile
          /\ (foodCacheFile.kind = "entry" /\ ~CacheIsFresh)
                => /\ last'.log = "Selected new random food"
                   /\ last'.ret.some
                   /\ includes(loadFoodList, last'.ret.food)
                   /\ foodCacheFile' = [kind |-> "entry", food |-> last'.ret.food,
                                        timestamp |-> now]]_vars

\* C6's case: an entry of exactly the TTL's age is replaced by a new selection.
C6_Witness ==
    /\ prev.op = "getRandomFood" /\ prev.log = "Selected new random food"
    /\ last.op = "getRandomFood" /\ last.arg = FALSE
    /\ last.at - prev.at = 12 * 60 * 60 * 1000
    /\ last.log = "Selected new random food"
    /\ foodCacheFile.timestamp = last.at

\* C7: on a stale, absent or bypassed cache, getRandomFood returns null iff
\* the catalog is empty; otherwise it returns an item of the catalog, any
\* item may be returned, and the cache then holds that item with the
\* current timestamp.
C7_NewSelection ==
    [][(\E forceNew \in BOOLEAN :
            IsGetRandomFood(forceNew) /\ (forceNew \/ ~CacheIsFresh))
       => LET foods == loadFoodList
          IN  /\ (last'.ret = None) <=> (Len(foods) = 0)
              /\ Len(foods) = 0 => foodCacheFile' = foodCacheFile
              /\ Len(foods) > 0
                    => /\ last'.ret.some
                       /\ includes(foods, last'.ret.food)
                       /\ foodCacheFile' = [kind |-> "entry", food |-> last'.ret.food,
                                            timestamp |-> now]
                       /\ \A i \in 1..Len(foods) :
                             \E r \in 0..(RandDen - 1) :
                                foods[randomIndex(r, Len(foods)) + 1] = foods[i]]_vars

\* C7's case: the last item of a catalog of several is selected and cached.
C7_Witness ==
    /\ last.op = "getRandomFood"
    /\ last.log = "Selected new random food"
    /\ Len(loadFoodList) >= 2
    /\ last.ret = Some(loadFoodList[Len(loadFoodList)])
    /\ foodCacheFile = [kind |-> "entry", food |-> last.ret.food, timestamp |-> last.at]

\* C8: after clearFoodCache no cache entry exists, whatever there was; a
\* second clearFoodCache changes nothing; and the next getRandomFood(false)
\* makes a new selection from the catalog.
C8_ClearDeletesAndIsIdempotent ==
    [][/\ (now' = now /\ last'.op = "clearFoodCache")
            => /\ foodCacheFile'.kind = "absent"
               /\ UNCHANGED <<foodsFile, adminsFile, restrictedFile>>
       /\ (now' = now /\ last.op = "clearFoodCache" /\ last'.op = "clearFoodCache")
            => UNCHANGED <<foodsFile, foodCacheFile, adminsFile, restrictedFile>>
       /\ (last.op = "clearFoodCache" /\ IsGetRandomFood(FALSE))
            => /\ last'.log # "Returning cached food"
               /\ Len(loadFoodList) > 0
                     => /\ last'.log = "Selected new random food"
                        /\ includes(loadFoodList, last'.ret.food)
                        /\ foodCacheFile'.kind = "entry"
                        /\ foodCacheFile'.timestamp = now]_vars

\* C8's case: an entry was cleared, and the next getRandomFood(false), at
\* the same instant, selected anew.
C8_Witness ==
    /\ prev.op = "clearFoodCache"
    /\ prev.log = "Food cache cleared successfully"
    /\ last.op = "getRandomFood" /\ last.arg = FALSE
    /\ last.at = prev.at
    /\ last.log = "Selected new random food"

-----------------------------------------------------------------------------
(* Claims about the catalog (SpecCatalog).                                 *)

\* The number of items of list equal to x, and the number below x in the
\* order of the code units.
CountEqual(list, x) == Cardinality({j \in 1..Len(list) : list[j] = x})
CountBelow(list, x) == Cardinality({j \in 1..Len(list) : StrLess(list[j], x)})

\* x stands at position i when list is sorted lexicographically.
AtSortedPosition(list, i, x) ==
    /\ includes(list, x)
    /\ CountBelow(list, x) < i
    /\ i <= CountBelow(list, x) + CountEqual(list, x)

\* after is before with one occurrence of x taken out, in any order.
MinusOne(before, after, x) ==
    /\ Len(after) = Len(before) - 1
    /\ \A j \in 1..Len(before) :
          CountEqual(after, before[j]) =
              CountEqual(before, before[j]) - (IF before[j] = x THEN 1 ELSE 0)

\* C9: addFoodToList(t) on a catalog that contains trim(t) exactly returns
\* false and leaves the catalog unchanged; in particular add(t) followed at
\* once by add(t) returns false on the second call, the size unchanged.
C9_DuplicateAddFails ==
    [][\A t \in FoodTexts :
          (last'.op = "addFoodToList" /\ last'.arg = t)
          => /\ includes(loadFoodList, trim(t))
                   => (last'.ret = FALSE /\ foodsFile' = foodsFile)
             /\ (last.op = "addFoodToList" /\ last.arg = t)
                   => (last'.ret = FALSE /\ Len(loadFoodList)' = Len(loadFoodList))]_vars

\* C10: for a catalog of n >= 1 items and 1 <= i <= n, removeFoodByIndex(i)
\* removes the item at position i of the lexicographically sorted catalog,
\* which is the item numbered i by getAllFoods(numbered=true), whatever the
\* order of the file.
C10_RemovesTheNumberedItem ==
    [][\A i \in 1..MaxIndex :
          (last'.op = "removeFoodByIndex" /\ last'.arg = i /\ i <= Len(loadFoodList))
          => LET line == getAllFoods.formattedText[i]
             IN  /\ line.number = i
                 /\ AtSortedPosition(loadFoodList, i, line.food)
                 /\ last'.ret.success
                 /\ last'.ret.message.food = line.food
                 /\ MinusOne(loadFoodList, loadFoodList', line.food)]_vars

\* C10's case: the file holds B before A, and index 1 removed A.
C10_Witness ==
    /\ prev = NoCall
    /\ last.op = "removeFoodByIndex" /\ last.arg = 1
    /\ last.ret.success
    /\ last.ret.message.food = <<"A">>
    /\ loadFoodList = << <<"B">> >>

\* The message names the range 1..count.
ReportsRange(message, count) ==
    /\ message.text = "Invalid index. Please use a number between"
    /\ message.from = 1
    /\ message.to = count

\* C11, as stated: for a catalog of count items, count = 0 included, and an
\* index outside 1..count, removeFoodByIndex returns success=false with a
\* message that reports the valid range, and changes neither the catalog
\* nor the cache.
C11_OutOfRangeReportsRange ==
    [][\A i \in 0..MaxIndex :
          (last'.op = "removeFoodByIndex" /\ last'.arg = i
              /\ (i < 1 \/ i > Len(loadFoodList)))
          => /\ ~last'.ret.success
             /\ ReportsRange(last'.ret.message, Len(loadFoodList))
             /\ foodsFile' = foodsFile
             /\ foodCacheFile' = foodCacheFile]_vars

\* C11, amended: the message reports the range 1..count when count >= 1,
\* and says that the list is empty when count = 0.
C11_OutOfRangeFailsUnchanged ==
    [][\A i \in 0..MaxIndex :
          (last'.op = "removeFoodByIndex" /\ last'.arg = i
              /\ (i < 1 \/ i > Len(loadFoodList)))
          => /\ ~last'.ret.success
             /\ IF Len(loadFoodList) >= 1
                THEN ReportsRange(last'.ret.message, Len(loadFoodList))
                ELSE last'.ret.message = [text |-> "Food list is empty"]
             /\ foodsFile' = foodsFile
             /\ foodCacheFile' = foodCacheFile]_vars

\* C11's case: an index past the end of a catalog, with a suggestion cached.
C11_Witness ==
    /\ last.op = "removeFoodByIndex"
    /\ ~last.ret.success
    /\ Len(loadFoodList) >= 1
    /\ last.arg > Len(loadFoodList)
    /\ ReportsRange(last.ret.message, Len(loadFoodList))
    /\ foodCacheFile.kind = "entry"

\* Item f is equal to trim(t), letter case disregarded.
EqualsIgnoringCase(f, t) == toLowerCase(f) = toLowerCase(trim(t))

\* The items of list that are not equal to trim(t), in their order.
Others(list, t) == SelectSeq(list, LAMBDA f : ~EqualsIgnoringCase(f, t))

\* C12: when the catalog holds an item case-insensitively equal to trim(t),
\* removeFoodFromList(t) returns success; afterwards no item of the catalog
\* is case-insensitively equal to trim(t), and every other item is kept
\* with its multiplicity and relative order.
C12_RemovesEveryMatch ==
    [][\A t \in RemoveTexts :
          (/\ last'.op = "removeFoodFromList" /\ last'.arg = t
           /\ \E i \in 1..Len(loadFoodList) : EqualsIgnoringCase(loadFoodList[i], t))
          => /\ last'.ret.success
             /\ \A j \in 1..Len(loadFoodList') : ~EqualsIgnoringCase(loadFoodList'[j], t)
             /\ loadFoodList' = Others(loadFoodList, t)]_vars

\* C12's case: "a" removed both A and a, and B stayed.
C12_Witness ==
    /\ last.op = "removeFoodFromList" /\ last.arg = <<"a">>
    /\ last.ret.success
    /\ last.ret.message.text = "Removed items matching"
    /\ last.ret.message.count = 2
    /\ loadFoodList = << <<"B">> >>

\* The items of list that contain trim(t), letter case disregarded.
Containing(list, t) ==
    SelectSeq(list, LAMBDA f : strIncludes(toLowerCase(f), toLowerCase(trim(t))))

\* C13: when no catalog item is case-insensitively equal to trim(t),
\* removeFoodFromList(t) returns success=false and changes neither the
\* catalog nor the cache, also when items contain t as a substring; the
\* message names at most 5 of the items containing t, the first ones, and
\* the number of the remaining ones.
C13_NoExactMatchRemovesNothing ==
    [][\A t \in SuggestTexts :
          (/\ last'.op = "removeFoodFromList" /\ last'.arg = t
           /\ \A i \in 1..Len(loadFoodList) : ~EqualsIgnoringCase(loadFoodList[i], t))
          => LET found == Containing(loadFoodList, t)
                 message == last'.ret.message
             IN  /\ ~last'.ret.success
                 /\ foodsFile' = foodsFile
                 /\ foodCacheFile' = foodCacheFile
                 /\ IF Len(loadFoodList) = 0
                    THEN message.text = "Food list is empty"
                    ELSE IF Len(found) = 0
                    THEN message.text = "not found in the list"
                    ELSE /\ message.text = "not found exactly. Did you mean one of"
                         /\ Len(message.candidates) <= SuggestionLimit
                         /\ message.candidates = SubSeq(found, 1, Len(message.candidates))
                         /\ message.more = Len(found) - Len(message.candidates)
                         /\ message.more > 0 => Len(message.candidates) = SuggestionLimit]_vars

\* C13's case: six items contain "a", five are named and one is counted,
\* with a suggestion cached.
C13_Witness ==
    /\ last.op = "removeFoodFromList" /\ last.arg = <<"a">>
    /\ ~last.ret.success
    /\ Len(last.ret.message.candidates) = SuggestionLimit
    /\ last.ret.message.more = 1
    /\ foodCacheFile.kind = "entry"

\* C14: after any sequence of role-registry operations, removeAdmin of a
\* seed username included, every seed username of DEFAULT_ADMINS is an
\* admin: isAdmin(seed) is true and getAllAdmins contains it.
C14_SeedsAreAlwaysAdmins ==
    \A i \in 1..Len(DEFAULT_ADMINS) :
        /\ isAdmin(DEFAULT_ADMINS[i])
        /\ includes(getAllAdmins, DEFAULT_ADMINS[i])

\* C14's case: removeAdmin(seed) wrote a file without the seed, and the
\* seed is an admin still.
C14_Witness ==
    /\ last.op = "removeAdmin" /\ last.arg = DEFAULT_ADMINS[1]
    /\ adminsFile.kind = "array"
    /\ ~includes(adminsFile.items, DEFAULT_ADMINS[1])
    /\ isAdmin(DEFAULT_ADMINS[1])

\* C15: for each role set and every username u, when remove(set, u)
\* returns success, u is no longer a member of that set on the next query;
\* when u is not a member, remove returns failure and the set is unchanged.
C15_RemovedIsNoLongerMember ==
    [][\A u \in Usernames :
          /\ (last'.op = "removeAdmin" /\ last'.arg = u)
             => /\ last'.ret.success => ~isAdmin(u)'
                /\ ~isAdmin(u) => (~last'.ret.success /\ loadAdmins' = loadAdmins)
          /\ (last'.op = "removeRestrictedUser" /\ last'.arg = u)
             => /\ last'.ret.success => ~isRestrictedUser(u)'
                /\ ~isRestrictedUser(u)
                   => /\ ~last'.ret.success
                      /\ loadRestrictedUsersFromDB.users'
                            = loadRestrictedUsersFromDB.users]_vars

\* The list after is the list before with one entry more, which is u
\* without a leading '@' (letter case disregarded).
GrownBy(before, after, u) ==
    /\ Len(after) = Len(before) + 1
    /\ SubSeq(after, 1, Len(before)) = before
    /\ toLowerCase(after[Len(after)]) = toLowerCase(cleanUsername(u))

\* C16: for each role set and every username u, add(set, u) returns failure
\* and leaves the set unchanged when u is empty (also after stripping a
\* leading '@') or already a member case-insensitively; otherwise it
\* returns success, the set grows by exactly the normalized u, and u is a
\* member afterwards.
C16_AddFailsOrGrows ==
    [][\A u \in Usernames :
          /\ (last'.op = "addAdmin" /\ last'.arg = u)
             => IF Len(cleanUsername(u)) = 0 \/ isAdmin(u)
                THEN ~last'.ret.success /\ loadAdmins' = loadAdmins
                ELSE /\ last'.ret.success
                     /\ GrownBy(loadAdmins, loadAdmins', u)
                     /\ isAdmin(u)'
          /\ (last'.op = "addRestrictedUser" /\ last'.arg = u)
             => IF Len(cleanUsername(u)) = 0 \/ isRestrictedUser(u)
                THEN /\ ~last'.ret.success
                     /\ loadRestrictedUsersFromDB.users' = loadRestrictedUsersFromDB.users
                ELSE /\ last'.ret.success
                     /\ GrownBy(loadRestrictedUsersFromDB.users,
                                loadRestrictedUsersFromDB.users', u)
                     /\ isRestrictedUser(u)']_vars

\* The usernames that carry no leading '@'.
PlainUsernames == {u \in Usernames : Len(u) = 0 \/ Head(u) # "@"}

upperChar(c) ==
    CASE c = "a" -> "A"
      [] c = "b" -> "B"
      [] OTHER -> c

\* u, and u with every letter in lower and in upper case.
CaseVariants(u) == {u, toLowerCase(u), [i \in 1..Len(u) |-> upperChar(u[i])]}

\* C17: isAdmin and isRestrictedUser normalize before comparing: for every
\* username u, the answer for '@'+u and for any change of letter case of u
\* equals the answer for u, and an empty username is never a member.
C17_MembershipIgnoresAtAndCase ==
    /\ \A u \in PlainUsernames :
          \A v \in CaseVariants(u) \cup {<<"@">> \o u} :
              /\ isAdmin(v) = isAdmin(u)
              /\ isRestrictedUser(v) = isRestrictedUser(u)
    /\ ~isAdmin(<<>>)
    /\ ~isRestrictedUser(<<>>)

\* C18: after any sequence of role-registry operations, every username
\* persisted in either role set is non-empty and stored without a leading
\* '@'.
C18_PersistedAreNormalized ==
    \A file \in {adminsFile, restrictedFile} :
        \A i \in 1..Len(file.items) :
            /\ Len(file.items[i]) > 0
            /\ Head(file.items[i]) # "@"

-----------------------------------------------------------------------------
(* Claims about loading (SpecLoad).                                        *)

\* The strings of the persisted admin list, as loadAdmins takes them.
PersistedAdmins ==
    IF adminsFile.kind = "array" THEN SelectSeq(adminsFile.items, isString) ELSE <<>>

\* C19: for every persisted admin document, loadAdmins returns the union of
\* the seed list and the persisted list, in which no two entries are equal
\* case-insensitively and every entry is trimmed and non-empty.
C19_LoadAdminsIsCleanUnion ==
    last.op = "loadAdmins"
    => LET ret == last.ret
           given == DEFAULT_ADMINS \o PersistedAdmins
       IN  /\ \A i \in 1..Len(given) :
                 Len(trim(given[i])) > 0
                 => someEqualsLower(ret, toLowerCase(trim(given[i])))
           /\ \A j \in 1..Len(ret) :
                 /\ \E i \in 1..Len(given) : ret[j] = trim(given[i])
                 /\ trim(ret[j]) = ret[j]
                 /\ Len(ret[j]) > 0
           /\ \A j, k \in 1..Len(ret) :
                 j # k => toLowerCase(ret[j]) # toLowerCase(ret[k])

\* C20: loading never fails: for a backing document that is missing,
\* unparsable, or parsable but not of the expected shape, the role-set,
\* catalog and cache loads return an empty default value (the seed list for
\* a role set), and an unparsable document is treated as empty.
C20_LoadsReturnEmptyDefault ==
    /\ last.op = "loadFoodList"
       => (~foodsFile.exists => last.ret = <<>>)
    /\ last.op = "loadFoodCache"
       => /\ ~last.ret.isNull
          /\ foodCacheFile.kind # "entry"
             => (~last.ret.hasFood /\ ~last.ret.hasTimestamp)
    /\ last.op = "loadAdmins"
       => (adminsFile.kind # "array" => last.ret = DEFAULT_ADMINS)
    /\ last.op = "loadRestrictedUsersFromDB"
       => /\ last.ret.isArray
          /\ restrictedFile.kind # "array" => last.ret.users = <<>>

\* C21: for every content of the cache file that is not a valid cache entry
\* (unparsable text, or JSON that is not an object with food and
\* timestamp), getRandomFood does not throw and behaves exactly as if no
\* cache file existed: it selects from the catalog and saves the selection,
\* or returns nothing for an empty catalog.
C21_CorruptCacheIsNoCache ==
    [][(last'.op = "getRandomFood"
           /\ foodCacheFile.kind \in {"null", "other", "unparsable"})
       => IF Len(loadFoodList) = 0
          THEN last'.ret = None /\ foodCacheFile' = foodCacheFile
          ELSE \E i \in 1..Len(loadFoodList) :
                  /\ last'.ret = Some(loadFoodList[i])
                  /\ foodCacheFile' = saveFoodCache(loadFoodList[i])]_vars

\* The call recorded is one of the catalog's or the registry's mutating
\* operations and it returned a failure: false, or a result with
\* success = false.
ReportedFailure(call) ==
    \/ call.op = "addFoodToList" /\ call.ret = FALSE
    \/ /\ call.op \in {"removeFoodByIndex", "removeFoodFromList", "addAdmin",
                       "removeAdmin", "addRestrictedUser", "removeRestrictedUser"}
       /\ "success" \in DOMAIN call.ret
       /\ ~call.ret.success

\* C22: whenever addFoodToList, removeFoodByIndex, removeFoodFromList,
\* addAdmin, removeAdmin, addRestrictedUser or removeRestrictedUser reports
\* failure, the catalog, the cache and both role sets are exactly as before
\* the call (a missing restricted-set file may have been created from the
\* legacy list, which is the set it stood for).
C22_FailureChangesNothing ==
    [][ReportedFailure(last')
       => /\ foodsFile' = foodsFile
          /\ foodCacheFile' = foodCacheFile
          /\ adminsFile' = adminsFile
          /\ restrictedFile' \in {restrictedFile, loadRestrictedUsersFromDB.file}]_vars

-----------------------------------------------------------------------------
(* Claims about refused writes (SpecWriteError).                           *)

\* The call recorded met a refused write: the error left the operation, or
\* the operation's catch logged it.
MetWriteError(call) ==
    \/ /\ call.op \in {"getRandomFood", "addAdmin", "removeAdmin",
                       "addRestrictedUser", "removeRestrictedUser"}
       /\ "raised" \in DOMAIN call.ret
       /\ call.ret = WriteError
    \/ call.log \in {"Error adding food to list", "Error removing food from list",
                     "Error clearing food cache"}

\* C23: a write error during any mutating operation reaches the caller as a
\* failure result: it is neither raised as an exception nor swallowed with
\* the operation reported as done.
C23_WriteErrorIsFailureResult ==
    MetWriteError(last) => ReportedFailure(last)

-----------------------------------------------------------------------------
(* Claims about the command handlers (SpecHandlers).                       *)

\* C24: each inbound command is handled to completion before the next is
\* processed: while one handler is between its permission check and its
\* mutation, no other handler makes a step, so at most one handler is
\* suspended at any time.
C24_OneHandlerAtATime ==
    Len(pending.queue) <= 1

\* The step resumes the handler h of sender: the part after its permission
\* check is run.
Resumes(h) ==
    /\ Len(pending.queue) > 0
    /\ h = Head(pending.queue)
    /\ pending'.queue = Tail(pending.queue)

\* The step leaves the catalog, the cache and both role sets as they are
\* (a missing restricted-set file may be created from the legacy list).
NothingChanges ==
    /\ foodsFile' = foodsFile
    /\ foodCacheFile' = foodCacheFile
    /\ adminsFile' = adminsFile
    /\ restrictedFile' \in {restrictedFile, loadRestrictedUsersFromDB.file}

\* C25: a sender whose username is in the Restricted set gets only the VIP
\* message from any command: no command issued by a restricted user changes
\* the catalog, the cache or either role set.
C25_RestrictedSenderChangesNothing ==
    [][\A h \in Inbound :
          /\ (Resumes(h) /\ isRestrictedUser(h.sender)) => NothingChanges
          /\ (last'.op = "checkCommandRestriction" /\ last'.ret = TRUE) => NothingChanges]_vars

\* C26: the admin-only commands change or reveal the role sets only when
\* the sender is a member of the Privileged set at the time the role set is
\* read or written.
C26_RoleCommandsNeedPrivilegeAtUse ==
    [][\A h \in Inbound :
          (Resumes(h) /\ h.command \in AdminCommands) => isAdmin(h.sender)]_vars

-----------------------------------------------------------------------------
(* Claims about round trips (SpecRoundTrip).                               *)

\* A valid role-set document: a JSON array of strings.
ValidRoleDocument(file) ==
    file.kind = "array" /\ \A i \in 1..Len(file.items) : isString(file.items[i])

\* An admin document in the form loadAdmins returns: the seeds in front,
\* every entry trimmed and non-empty, no entry twice.
NormalAdminDocument(file) ==
    /\ ValidRoleDocument(file)
    /\ Len(file.items) >= Len(DEFAULT_ADMINS)
    /\ SubSeq(file.items, 1, Len(DEFAULT_ADMINS)) = DEFAULT_ADMINS
    /\ \A i \in 1..Len(file.items) :
          /\ trim(file.items[i]) = file.items[i]
          /\ Len(file.items[i]) > 0
          /\ \A j \in 1..Len(file.items) : i # j => file.items[i] # file.items[j]

-----------------------------------------------------------------------------
(* Further claims about the role registry (SpecRoles).                     *)

\* C28: on first access with the restricted-set file missing, loading the
\* Restricted set creates the file holding exactly the legacy seed list and
\* returns that list; every later load returns the file's content and never
\* merges the seed again.
C28_SeededOnFirstLoadOnly ==
    [][/\ last'.op = "loadRestrictedUsersFromDB"
          => IF restrictedFile.kind = "absent"
             THEN /\ restrictedFile' = ArrayFile(RESTRICTED_USERS)
                  /\ last'.ret.users = RESTRICTED_USERS
             ELSE /\ restrictedFile' = restrictedFile
                  /\ last'.ret.users = restrictedFile.items
       /\ restrictedFile.kind # "absent" => restrictedFile'.kind # "absent"]_vars

\* C28's case: the seed was removed from the file created on first access,
\* and a later load returned the empty list.
C28_Witness ==
    /\ last.op = "loadRestrictedUsersFromDB"
    /\ restrictedFile = ArrayFile(<<>>)
    /\ last.ret.users = <<>>

-----------------------------------------------------------------------------
(* Claims about removals over the documents found on disk (SpecLoad).      *)

\* No item stands before a smaller one, in the order of the code units.
IsSorted(list) == \A j \in 1..(Len(list) - 1) : ~StrLess(list[j + 1], list[j])

\* C29: after a successful removeFoodByIndex(i) the backing file holds the
\* remaining items in lexicographically sorted order, and its multiset of
\* items equals the previous multiset minus exactly one occurrence of the
\* removed item (other duplicates of it are kept).
C29_SortedMinusOneOccurrence ==
    [][(last'.op = "removeFoodByIndex" /\ last'.ret.success)
       => LET before == loadFoodList
              after == loadFoodList'
              removedFood == last'.ret.message.food
          IN  /\ foodsFile'.exists
              /\ foodsFile'.content = joinLines(after)
              /\ IsSorted(after)
              /\ MinusOne(before, after, removedFood)
              /\ CountEqual(after, removedFood) = CountEqual(before, removedFood) - 1]_vars

\* C29's case: the file held A, B, A; one A was removed and the other is
\* still in the file, in front of B.
C29_Witness ==
    /\ last.op = "removeFoodByIndex" /\ last.ret.success
    /\ last.ret.message.food = <<"A">>
    /\ foodsFile.content = <<"A", NL, "B">>

-----------------------------------------------------------------------------
(* Claims about removals and the suggestion cache (SpecRemoval).           *)

\* The items that list holds more often before the step than after it.
RemovedItems(before, after) ==
    {before[j] : j \in {k \in 1..Len(before) :
                           CountEqual(after, before[k]) < CountEqual(before, before[k])}}

\* C30: after a successful removal by index or by value, the cache entry is
\* absent if a removed item is case-insensitively equal to the cached
\* suggestion, and is otherwise exactly as before the removal (same value
\* and timestamp).
C30_CacheFollowsRemoval ==
    [][(last'.op \in {"removeFoodByIndex", "removeFoodFromList"} /\ last'.ret.success)
       => IF /\ foodCacheFile.kind = "entry"
             /\ \E x \in RemovedItems(loadFoodList, loadFoodList') :
                   EqualsIgnoringCase(x, foodCacheFile.food)
          THEN foodCacheFile'.kind = "absent"
          ELSE foodCacheFile' = foodCacheFile]_vars

\* C30's case: a was suggested and cached, then the removal of A by its
\* index removed the cache entry as well.
C30_Witness ==
    /\ prev.op = "getRandomFood" /\ prev.ret = Some(<<"a">>)
    /\ last.op = "removeFoodByIndex" /\ last.ret.success
    /\ last.ret.message.food = <<"A">>
    /\ foodCacheFile.kind = "absent"
    /\ now > 0

-----------------------------------------------------------------------------
(* Claims about the files each operation touches (SpecPaths).              *)

CatalogOps == {"addFoodToList", "removeFoodByIndex", "removeFoodFromList", "getAllFoods"}
CacheOps == {"getRandomFood", "clearFoodCache"}
RoleOps ==
    {"addAdmin", "removeAdmin", "isAdmin", "getAllAdmins",
     "addRestrictedUser", "removeRestrictedUser", "isRestrictedUser",
     "getAllRestrictedUsers"}

\* The last step was a successful removal of an item that equals the cached
\* suggestion but for case.
RemovedTheCachedFood ==
    /\ last'.op \in {"removeFoodByIndex", "removeFoodFromList"}
    /\ last'.ret.success
    /\ foodCacheFile.kind = "entry"
    /\ IF last'.op = "removeFoodByIndex"
       THEN toLowerCase(last'.ret.message.food) = toLowerCase(foodCacheFile.food)
       ELSE EqualsIgnoringCase(foodCacheFile.food, last'.arg)

\* What holds of both readings: the cache operations leave the catalog
\* file alone, catalog and cache operations leave the role files alone, and
\* the role operations leave the catalog and the cache alone.
OtherPathsUntouched ==
    /\ last'.op \in CacheOps => foodsFile' = foodsFile
    /\ last'.op \in (CatalogOps \cup CacheOps)
          => (adminsFile' = adminsFile /\ restrictedFile' = restrictedFile)
    /\ last'.op \in RoleOps
          => (foodsFile' = foodsFile /\ foodCacheFile' = foodCacheFile)

\* C31: each component owns a disjoint set of paths: no operation of the
\* Catalog Manager reads, writes or deletes the cache document, no operation
\* of the Suggestion Cache writes the catalog document, and no catalog or
\* cache operation touches a role-set document (and conversely).
C31_DisjointPaths ==
    [][/\ last'.op \in CatalogOps => foodCacheFile' = foodCacheFile
       /\ OtherPathsUntouched]_vars

\* C31 as the code has it: the removals of the catalog delete the cache
\* document when they removed the cached suggestion, and only then; no other
\* catalog operation changes it; the rest as above.
C31_RemovalsDeleteTheCache ==
    [][/\ last'.op \in CatalogOps
          => IF RemovedTheCachedFood
             THEN foodCacheFile'.kind = "absent"
             ELSE foodCacheFile' = foodCacheFile
       /\ OtherPathsUntouched]_vars

\* C31's case: A was suggested and cached, then removeFoodByIndex removed A
\* and the cache document with it.
C31_Witness ==
    /\ prev.op = "getRandomFood" /\ prev.ret = Some(<<"A">>)
    /\ last.op = "removeFoodByIndex" /\ last.ret.success
    /\ last.ret.message.food = <<"A">>
    /\ foodCacheFile.kind = "absent"

-----------------------------------------------------------------------------
(* Further claims about the command handlers (SpecHandlers).               *)

\* The step is the successful removal of u from a role set by operation op.
RemovesRole(op, u) ==
    /\ last'.op = op
    /\ "success" \in DOMAIN last'.ret
    /\ last'.ret.success
    /\ toLowerCase(u) = toLowerCase(cleanUsername(last'.arg))

\* C32: every core read-modify-write (catalog add/remove, cache save/clear,
\* role add/remove) is one uninterrupted step: under any interleaving of
\* command handlers at their await points, no other handler's step runs
\* between the read and the write of one core operation, so no lost update
\* between two core operations can occur. Whatever the order in which the
\* suspended handlers are resumed, a step that rewrites a file keeps all that
\* the file held just before the step, but for the entry the step removes.
C32_NoLostUpdate ==
    [][/\ adminsFile' # adminsFile
          => \A i \in 1..Len(loadAdmins) :
                \/ includes(adminsFile'.items, loadAdmins[i])
                \/ RemovesRole("removeAdmin", loadAdmins[i])
       /\ restrictedFile' # restrictedFile
          => \A i \in 1..Len(loadRestrictedUsersFromDB.users) :
                \/ includes(restrictedFile'.items, loadRestrictedUsersFromDB.users[i])
                \/ RemovesRole("removeRestrictedUser", loadRestrictedUsersFromDB.users[i])
       /\ foodsFile' # foodsFile
          => /\ last'.op = "addFoodToList"
             /\ Len(foodsFile'.content) > Len(foodsFile.content)
             /\ SubSeq(foodsFile'.content, 1, Len(foodsFile.content)) = foodsFile.content]_vars

\* C32's case: two handlers were suspended at their await; the first has
\* added its admin, the second is still to run, and the file holds what was
\* written before both.
C32_Witness ==
    /\ pending.draining
    /\ Len(pending.queue) = 1
    /\ Head(pending.queue).command = "/addadmin"
    /\ last.op = "addAdmin" /\ last.ret.success
    /\ last.arg # trim(Head(pending.queue).arg)
    /\ Len(adminsFile.items) = 3

-----------------------------------------------------------------------------
(* Claims about the catalog under texts of every kind (SpecTexts).         *)

\* C33: starting from a catalog without exact (case-sensitive) duplicates,
\* after any sequence of addFoodToList, removeFoodByIndex and
\* removeFoodFromList calls with arbitrary text arguments the loaded catalog
\* contains no two identical items.
C33_NoTwoIdenticalItems ==
    \A i, j \in 1..Len(loadFoodList) : loadFoodList[i] = loadFoodList[j] => i = j

\* C34: in every reachable state every item returned by loadFoodList is a
\* trimmed, non-empty string, whatever texts were passed to addFoodToList.
C34_ItemsAreTrimmedNonEmpty ==
    \A i \in 1..Len(loadFoodList) :
        /\ Len(loadFoodList[i]) > 0
        /\ trim(loadFoodList[i]) = loadFoodList[i]
        /\ \A k \in 1..Len(loadFoodList[i]) : loadFoodList[i][k] # NL

\* C34's case: white space only was added with success, and the file ends
\* in an empty line that is no item.
C34_Witness ==
    /\ last.op = "addFoodToList" /\ last.arg = <<" ">> /\ last.ret = TRUE
    /\ foodsFile.content[Len(foodsFile.content)] = NL
    /\ Len(loadFoodList) = 2

\* C35: whenever addFoodToList(t) returns true, the catalog loaded
\* immediately afterwards contains trim(t) and has exactly one item more
\* than before the call, for every text t including whitespace-only text.
C35_AddedMeansOneMore ==
    [][\A t \in AnyTexts :
          (last'.op = "addFoodToList" /\ last'.arg = t /\ last'.ret = TRUE)
          => /\ includes(loadFoodList', trim(t))
             /\ Len(loadFoodList') = Len(loadFoodList) + 1]_vars

-----------------------------------------------------------------------------
(* Further claims about the catalog and the cache (SpecPaths).             *)

\* C36: after any sequence of addFoodToList, removeFoodByIndex,
\* removeFoodFromList, getRandomFood and clearFoodCache calls starting with
\* no cache entry, whenever a cache entry exists its value is an item of the
\* current catalog.
C36_CachedIsInCatalog ==
    foodCacheFile.kind = "entry" => includes(loadFoodList, foodCacheFile.food)

\* C36's case: a suggestion was cached, and a removal of another item has
\* left the entry in place.
C36_Witness ==
    /\ last.op \in {"removeFoodByIndex", "removeFoodFromList"}
    /\ last.ret.success
    /\ foodCacheFile.kind = "entry"
    /\ includes(loadFoodList, foodCacheFile.food)

-----------------------------------------------------------------------------
(* A further claim about the role registry (SpecRoles).                    *)

\* username names the legacy seed, with or without @ and in any case.
NamesSeed(username) ==
    toLowerCase(cleanUsername(username)) = toLowerCase(RESTRICTED_USERS[1])

\* The restricted-set file exists and does not hold the legacy seed.
SeedIsRemoved(file) ==
    /\ file.kind = "array"
    /\ ~someEqualsLower(file.items, toLowerCase(RESTRICTED_USERS[1]))

\* C37: a legacy seed username of the Restricted set that was removed by
\* removeRestrictedUser stays removed: after the removal succeeds,
\* isRestrictedUser(seed) is false in every later state until
\* addRestrictedUser(seed) is called, also across a process restart (the
\* registry keeps nothing in memory: every call loads the file).
C37_RemovedSeedStaysRemoved ==
    [][/\ (/\ last'.op = "removeRestrictedUser"
           /\ last'.ret.success
           /\ NamesSeed(last'.arg))
          => SeedIsRemoved(restrictedFile')
       /\ SeedIsRemoved(restrictedFile)
          => /\ ~isRestrictedUser(RESTRICTED_USERS[1])
             /\ ~(last'.op = "addRestrictedUser" /\ NamesSeed(last'.arg))
                   => SeedIsRemoved(restrictedFile')]_vars

\* C37's case: the seed was removed from the file created on first access,
\* and another user was restricted afterwards; the seed is still out.
C37_Witness ==
    /\ last.op = "addRestrictedUser" /\ last.ret.success
    /\ restrictedFile = ArrayFile(<< <<"a", "b">> >>)
    /\ ~isRestrictedUser(RESTRICTED_USERS[1])

-----------------------------------------------------------------------------
(* A further claim about the command handlers (SpecHandlers).              *)

\* C38: a sender with no username is never treated as restricted and never
\* as privileged: the restriction check is skipped for them in every food
\* command, and every admin-only command is refused for them, in every state
\* of the role sets.
C38_NoUsernameNoRole ==
    [][/\ ~isRestrictedUser(<<>>)
       /\ ~isAdmin(<<>>)
       /\ last'.op = "checkCommandRestriction" => Len(last'.arg) > 0
       /\ (last'.op = "checkAdminPermission" /\ Len(last'.arg) = 0)
             => /\ last'.ret = TRUE
                /\ pending' = pending
                /\ NothingChanges
       /\ \A i \in 1..Len(pending'.queue) :
             pending'.queue[i].command \in AdminCommands
                => Len(pending'.queue[i].sender) > 0]_vars

\* C38's case: both role files hold an empty username (stored by the
\* commands that name "@"), and an admin-only command of a sender without
\* username was refused.
C38_Witness ==
    /\ last.op = "checkAdminPermission" /\ Len(last.arg) = 0 /\ last.ret = TRUE
    /\ adminsFile.kind = "array" /\ includes(adminsFile.items, <<>>)
    /\ restrictedFile.kind = "array" /\ includes(restrictedFile.items, <<>>)

-----------------------------------------------------------------------------
(* A claim about the read-only operations (SpecPaths).                     *)

ReadOnlyOps ==
    {"getAllFoods", "isAdmin", "getAllAdmins", "isRestrictedUser",
     "getAllRestrictedUsers"}

\* C39: the read-only operations getAllFoods, isAdmin, getAllAdmins,
\* isRestrictedUser and getAllRestrictedUsers never change the membership of
\* a role set, the cache entry, or the catalog's contents and physical order
\* (getAllFoods sorts only its in-memory copy); an empty catalog yields the
\* fixed no-items message. The one write they make is the creation of a
\* missing restricted-set file from the legacy list, which is the membership
\* the load reported before.
C39_ReadOnlyOpsChangeNothing ==
    [][last'.op \in ReadOnlyOps
       => /\ foodsFile' = foodsFile
          /\ foodCacheFile' = foodCacheFile
          /\ adminsFile' = adminsFile
          /\ restrictedFile' # restrictedFile
                => /\ restrictedFile.kind = "absent"
                   /\ restrictedFile'.kind = "array"
                   /\ restrictedFile'.items = loadRestrictedUsersFromDB.users
          /\ (last'.op = "getAllFoods" /\ Len(loadFoodList) = 0)
                => /\ last'.ret.foods = <<>>
                   /\ last'.ret.formattedText = <<"No foods available in the list.">>
          /\ (last'.op = "getAllFoods" /\ Len(loadFoodList) > 0)
                => /\ IsSorted(last'.ret.foods)
                   /\ Len(last'.ret.foods) = Len(loadFoodList)]_vars

\* C39's case: getAllFoods returned A before B while the file still holds
\* B before A.
C39_Witness ==
    /\ last.op = "getAllFoods"
    /\ last.ret.foods = << <<"A">>, <<"B">> >>
    /\ foodsFile.content = <<"B", NL, "A">>

====
